---- MODULE Spec2Model ----
(***************************************************************************)
(* Model of the live voice session of src/App.tsx: the connection state    *)
(* machine (startConversation / stopConversation and the transport         *)
(* callbacks), the capture loop and its PCM conversion, the playback        *)
(* scheduler and the transcription accumulators.                           *)
(*                                                                         *)
(* Every startConversation call k creates its own pair of audio contexts,  *)
(* its own microphone stream and its own transport session; all of them    *)
(* are named by the number k of the call.  The React refs and state of the *)
(* component are shared by all calls.  Handlers run to completion, except  *)
(* at an await, where other handlers may run before the continuation.      *)
(***************************************************************************)
EXTENDS Integers, Sequences, FiniteSets, TLC

\* ------------------------------------------------------------------ bounds
MaxStarts   == 2    \* startConversation calls
AudioStarts == 1    \* startConversation calls while the audio stream is followed
TextMsgs    == 2    \* inbound messages of the transcript stream
AudioMsgs   == 2    \* inbound messages of the audio stream
MaxFrames   == 2    \* captured frames per capture loop
MaxClock    == 3    \* last instant of an output clock
MaxDur      == 2    \* longest chunk duration
MaxThrows   == 1    \* calls of close() on one session that throw
MaxSample   == 9    \* largest magnitude of a sample, in 1/Den
MaxImages   == 3    \* images the image editor is given or makes
MaxFlight   == 1    \* file reads, and calls of handleEdit, in flight together
FrameLen    == 2    \* samples of a frame

Calls == 1..MaxStarts

\* ------------------------------------------------------------------ values
DISCONNECTED == "DISCONNECTED"
CONNECTING   == "CONNECTING"
CONNECTED    == "CONNECTED"
ERROR        == "ERROR"
ConnectionStatus == {DISCONNECTED, CONNECTING, CONNECTED, ERROR}

\* Text is a sequence of characters, which are numbers from 1; the empty string
\* is << >>.  Absent is the value of a transcription field a message does not
\* carry.
Absent == <<0>>

Max(a, b) == IF a >= b THEN a ELSE b

Min(a, b) == IF a <= b THEN a ELSE b

VARIABLES
  status,             \* useState status
  history,            \* useState history
  isGeminiSpeaking,   \* useState isGeminiSpeaking
  isUserSpeaking,     \* useState isUserSpeaking
  inputAudioContextRef,   \* number of the call that made it, 0 for null
  outputAudioContextRef,  \* number of the call that made it, 0 for null
  nextStartTimeRef,
  activeSourcesRef,   \* set of ids of sources
  sessionRef,         \* session number, 0 for null
  streamRef,          \* stream number, 0 for null
  currentInputTransRef,
  currentOutputTransRef,
  starts,             \* startConversation calls made so far
  call,               \* call[k]: where the k-th startConversation call is
  transport,          \* transport[k]: state of the k-th transport session
  track,              \* track[k]: state of the k-th microphone stream
  capture,            \* capture[k]: the k-th onaudioprocess is installed
  captured,           \* captured[k]: frames the k-th capture loop has seen
  queued,             \* queued[k]: frames waiting on sessionPromise.then
  sent,               \* sent[k]: frames the k-th transport was given, in order
  clock,              \* clock[k]: currentTime of the k-th output context
  sources,            \* the AudioBufferSourceNodes whose 'ended' has not fired
  decoding,           \* onmessage handlers suspended at await decodeAudioData
  msgs,               \* inbound messages delivered so far
  closeCalls,         \* closeCalls[k]: close() calls on session k
  trackStops,         \* trackStops[k]: stop() calls on the track of stream k
  halted,             \* stopConversation has returned and no start came after
  expect,             \* {t}: nextStartTime has been t since the last start call
  claimed,            \* {t}: where the last started chunk ends, if no interruption
  said,               \* fragments delivered since the last turn-complete, by role
  log,                \* the transcript the delivered fragments call for
  dropped,            \* characters that were in an accumulator at a teardown
  asIf,               \* nextStartTime, had no chunk arrived that did not decode
  inputData,          \* the samples of the frame converted last, in 1/Den
  int16,              \* the Int16Array made of them
  editorHistory,      \* ImageEditor: useState history, images named by numbers
  pointer,            \* ImageEditor: useState pointer
  prompt,             \* ImageEditor: the prompt is not blank
  isProcessing,       \* ImageEditor: useState isProcessing
  isCropping,         \* ImageEditor: useState isCropping
  cropBox,            \* ImageEditor: cropBox is not null
  reading,            \* ImageEditor: FileReaders that have not loaded yet
  edits,              \* ImageEditor: handleEdit calls in flight
  made,               \* ImageEditor: images made so far
  lastEdit,           \* ImageEditor: the handler that ran last, and what it saw
  last                \* the handler that ran last, and how it ended

refs   == <<inputAudioContextRef, outputAudioContextRef, nextStartTimeRef,
            activeSourcesRef, sessionRef, streamRef, currentInputTransRef,
            currentOutputTransRef>>
react  == <<status, history, isGeminiSpeaking, isUserSpeaking>>
world  == <<starts, call, transport, track, capture, captured, queued, sent,
            clock, sources, decoding, msgs, closeCalls, trackStops>>
ghost  == <<halted, expect, claimed, said, log, dropped, asIf, last>>
pcm    == <<inputData, int16>>
editor == <<editorHistory, pointer, prompt, isProcessing, isCropping, cropBox,
            reading, edits, made, lastEdit>>
app    == <<refs, react, world, ghost, pcm>>
vars   == <<app, editor>>

\* What `last` records: the operation, the call it belongs to (0 for none),
\* whether the message it handled carried `interrupted`, and whether the
\* handler ran to its end ("done"), is suspended ("await") or was ended by an
\* exception ("threw"); and, for a message, the turn-complete it carried: "none",
\* "empty" when no role was heard since the turn-complete before, or "full".
Step(op, k, int, how) ==
  [op |-> op, k |-> k, interrupted |-> int, how |-> how, turn |-> "none"]

\* What `lastEdit` records: the handler of the image editor, the history and
\* the pointer of the render it was made in, and the pointer it found when it
\* ran.
Did(op, h, p) == [op |-> op, history |-> h, pointer |-> p, now |-> pointer]

Init ==
  /\ status = DISCONNECTED
  /\ history = << >>
  /\ isGeminiSpeaking = FALSE
  /\ isUserSpeaking = FALSE
  /\ inputAudioContextRef = 0
  /\ outputAudioContextRef = 0
  /\ nextStartTimeRef = 0
  /\ activeSourcesRef = {}
  /\ sessionRef = 0
  /\ streamRef = 0
  /\ currentInputTransRef = << >>
  /\ currentOutputTransRef = << >>
  /\ starts = 0
  /\ call = [k \in Calls |-> "none"]
  /\ transport = [k \in Calls |-> "none"]
  /\ track = [k \in Calls |-> "none"]
  /\ capture = [k \in Calls |-> FALSE]
  /\ captured = [k \in Calls |-> 0]
  /\ queued = [k \in Calls |-> << >>]
  /\ sent = [k \in Calls |-> << >>]
  /\ clock = [k \in Calls |-> 0]
  /\ sources = {}
  /\ decoding = << >>
  /\ msgs = 0
  /\ closeCalls = [k \in Calls |-> 0]
  /\ trackStops = [k \in Calls |-> 0]
  /\ halted = FALSE
  /\ expect = {}
  /\ claimed = {}
  /\ said = [user |-> << >>, gemini |-> << >>]
  /\ log = << >>
  /\ dropped = {}
  /\ asIf = 0
  /\ inputData = << >>
  /\ int16 = << >>
  /\ editorHistory = << >>
  /\ pointer = -1
  /\ prompt = FALSE
  /\ isProcessing = FALSE
  /\ isCropping = FALSE
  /\ cropBox = FALSE
  /\ reading = 0
  /\ edits = << >>
  /\ made = 0
  /\ lastEdit = Did("init", << >>, -1)
  /\ last = Step("init", 0, FALSE, "done")

\* ------------------------------------------------------------ audio sources
Ids(srcs) == {s.id : s \in srcs}

\* An id no source of srcs has.
FreshId(srcs) == CHOOSE i \in 1..(Cardinality(srcs) + 1) : i \notin Ids(srcs)

\* The source the suspended handler h creates and starts, lines 125-134.  It
\* plays [begin, begin + dur) on the clock of context ctx: start is the time given
\* to source.start, begin the later of it and the clock at the call.  stale says
\* that an interruption was handled while the chunk was being decoded; expect
\* and claimed are those of the state the source was started in.
Source(h) ==
  [id |-> FreshId(sources), ctx |-> h.ctx, start |-> nextStartTimeRef,
   begin |-> Max(nextStartTimeRef, clock[h.ctx]), dur |-> h.audio,
   stale |-> h.stale, expect |-> expect, claimed |-> claimed, stops |-> 0]

Finished(s) == clock[s.ctx] >= s.begin + s.dur

\* source.stop(), inside try/catch
StopSource(s) == [s EXCEPT !.stops = @ + 1]

\* activeSourcesRef.current.forEach(source => source.stop())
StopAll(srcs, active) ==
  {IF s.id \in active THEN StopSource(s) ELSE s : s \in srcs}

\* session.close(): an open transport starts closing, and its close event follows
CloseTransport(t) == IF t \in {"connecting", "open"} THEN "closing" ELSE t

\* ------------------------------------------------------- stopConversation
\* The characters of the text t, and those of the partial turn the accumulators
\* hold.
Chars(t) == {t[i] : i \in DOMAIN t}

Partial == Chars(currentInputTransRef) \cup Chars(currentOutputTransRef)

\* The body of stopConversation, lines 34-51.  `also` holds the transports that
\* close by themselves in the same step.
stopConversation(also) ==
  /\ sessionRef' = 0
  /\ transport' = [j \in Calls |->
                     IF j = sessionRef \/ j \in also THEN CloseTransport(transport[j])
                     ELSE transport[j]]
  /\ closeCalls' = IF sessionRef # 0
                   THEN [closeCalls EXCEPT ![sessionRef] = @ + 1]
                   ELSE closeCalls
  /\ streamRef' = 0
  /\ track' = IF streamRef # 0 THEN [track EXCEPT ![streamRef] = "stopped"] ELSE track
  /\ trackStops' = IF streamRef # 0
                   THEN [trackStops EXCEPT ![streamRef] = @ + 1]
                   ELSE trackStops
  /\ sources' = StopAll(sources, activeSourcesRef)
  /\ activeSourcesRef' = {}
  /\ status' = DISCONNECTED
  /\ isUserSpeaking' = FALSE
  /\ isGeminiSpeaking' = FALSE
  /\ halted' = TRUE
  /\ dropped' = dropped \cup Partial

\* stopConversation called by the Stop button, the voice buttons or the unmount
\* effect.
Stop ==
  /\ stopConversation({})
  /\ last' = Step("stop", 0, FALSE, "done")
  /\ UNCHANGED <<history, inputAudioContextRef, outputAudioContextRef,
                 nextStartTimeRef, currentInputTransRef, currentOutputTransRef,
                 starts, call, capture, captured, queued, sent, clock, decoding,
                 msgs, expect, claimed,
                 said, log, asIf, pcm, editor>>

\* ------------------------------------------------------ startConversation
\* Lines 55-62: up to the await of getUserMedia.  The start button is rendered
\* only while the status is DISCONNECTED or ERROR.
StartConversation ==
  /\ status \in {DISCONNECTED, ERROR}
  /\ starts' = starts + 1
  /\ status' = CONNECTING
  /\ inputAudioContextRef' = starts + 1
  /\ outputAudioContextRef' = starts + 1
  /\ call' = [call EXCEPT ![starts + 1] = "getUserMedia"]
  /\ halted' = FALSE
  /\ last' = Step("start", starts + 1, FALSE, "await")
  /\ UNCHANGED <<history, isGeminiSpeaking, isUserSpeaking, nextStartTimeRef,
                 activeSourcesRef, sessionRef, streamRef, currentInputTransRef,
                 currentOutputTransRef, transport, track, capture, captured,
                 queued, sent, clock, sources, decoding, msgs, closeCalls,
                 trackStops, expect, claimed,
                 said, log, dropped, asIf, pcm, editor>>

\* getUserMedia resolves: lines 63-164, up to the await of sessionPromise.
MicGranted(k) ==
  /\ call[k] = "getUserMedia"
  /\ track' = [track EXCEPT ![k] = "live"]
  /\ streamRef' = k
  /\ transport' = [transport EXCEPT ![k] = "connecting"]
  /\ call' = [call EXCEPT ![k] = "sessionPromise"]
  /\ last' = Step("micGranted", k, FALSE, "await")
  /\ UNCHANGED <<react, inputAudioContextRef, outputAudioContextRef,
                 nextStartTimeRef, activeSourcesRef, sessionRef,
                 currentInputTransRef, currentOutputTransRef, starts, capture,
                 captured, queued, sent, clock, sources, decoding, msgs,
                 closeCalls, trackStops, halted, expect, claimed,
                 said, log, dropped, asIf, pcm, editor>>

\* A rejection of getUserMedia after which the call connects all the same.
MicDeniedConnects(k) ==
  /\ call[k] = "getUserMedia"
  /\ call' = [call EXCEPT ![k] = "caught"]
  /\ transport' = [transport EXCEPT ![k] = "connecting"]
  /\ status' = ERROR
  /\ last' = Step("micDenied", k, FALSE, "done")
  /\ UNCHANGED <<history, isGeminiSpeaking, isUserSpeaking, refs, starts,
                 track, capture, captured, queued, sent, clock,
                 sources, decoding, msgs, closeCalls, trackStops, halted, expect,
                 claimed, said, log, dropped, asIf, pcm, editor>>

\* getUserMedia rejects: the catch of lines 165-168.
MicDenied(k) ==
  /\ call[k] = "getUserMedia"
  /\ call' = [call EXCEPT ![k] = "caught"]
  /\ status' = ERROR
  /\ last' = Step("micDenied", k, FALSE, "done")
  /\ UNCHANGED <<history, isGeminiSpeaking, isUserSpeaking, refs, starts,
                 transport, track, capture, captured, queued, sent, clock,
                 sources, decoding, msgs, closeCalls, trackStops, halted, expect, claimed,
                 said, log, dropped, asIf, pcm, editor>>

\* onopen, lines 68-96: the capture loop is installed on the stream of this call.
OnOpen(k) ==
  /\ transport[k] = "connecting"
  /\ transport' = [transport EXCEPT ![k] = "open"]
  /\ status' = CONNECTED
  /\ capture' = [capture EXCEPT ![k] = TRUE]
  /\ last' = Step("onopen", k, FALSE, "done")
  /\ UNCHANGED <<history, isGeminiSpeaking, isUserSpeaking, refs, starts, call,
                 track, captured, queued, sent, clock, sources, decoding, msgs,
                 closeCalls, trackStops, halted, expect, claimed,
                 said, log, dropped, asIf, pcm, editor>>

\* The transport fails to open: sessionPromise rejects, the catch of lines
\* 165-168 runs, and the callbacks queued on the promise are dropped.
ConnectFailed(k) ==
  /\ transport[k] = "connecting"
  /\ call[k] = "sessionPromise"
  /\ transport' = [transport EXCEPT ![k] = "closed"]
  /\ call' = [call EXCEPT ![k] = "caught"]
  /\ status' = ERROR
  /\ last' = Step("connectFailed", k, FALSE, "done")
  /\ UNCHANGED <<history, isGeminiSpeaking, isUserSpeaking, refs, starts, track,
                 capture, captured, queued, sent, clock, sources, decoding, msgs,
                 closeCalls, trackStops, halted, expect, claimed,
                 said, log, dropped, asIf, pcm, editor>>

\* session.sendRealtimeInput for the frames fs: a transport that is not open
\* transmits nothing.
Send(k, fs) == IF transport[k] = "open" THEN [sent EXCEPT ![k] = @ \o fs] ELSE sent

\* sessionPromise resolves after onopen: line 164 assigns sessionRef, then the
\* callbacks queued by sessionPromise.then run in the order they were queued.
SessionResolved(k) ==
  /\ call[k] = "sessionPromise"
  /\ transport[k] \in {"open", "closing", "closed"}
  /\ call' = [call EXCEPT ![k] = "done"]
  /\ sessionRef' = k
  /\ sent' = Send(k, queued[k])
  /\ queued' = [queued EXCEPT ![k] = << >>]
  /\ last' = Step("sessionResolved", k, FALSE, "done")
  /\ UNCHANGED <<react, inputAudioContextRef, outputAudioContextRef,
                 nextStartTimeRef, activeSourcesRef, streamRef,
                 currentInputTransRef, currentOutputTransRef, starts, transport,
                 track, capture, captured, clock, sources, decoding, msgs,
                 closeCalls, trackStops, halted, expect, claimed,
                 said, log, dropped, asIf, pcm, editor>>

\* A callback that runs before the callbacks queued earlier.
ThenFirst(q, f) == <<f>> \o q

\* Line 89, sessionPromise.then while the promise is pending: the callback that
\* sends frame f is queued behind the callbacks q queued before it.
Then(q, f) == Append(q, f)

\* ------------------------------------------------------------ PCM conversion
\* A sample is a number of sixths: 6 is 1.0, 3 is 0.5, 9 is 1.5.
Den == 6

Samples == (-MaxSample)..MaxSample

Frames == [1..FrameLen -> Samples]

\* The factor of line 82.
Scale == 32768

\* a / b with the fraction dropped, as the conversion of a Number to an integer
\* type does.
Trunc(a, b) == IF a >= 0 THEN a \div b ELSE -((-a) \div b)

\* The value an Int16Array element holds after v is stored in it: v modulo
\* 2^16, taken in -2^15 .. 2^15 - 1.
ToInt16(v) == ((v + 2^15) % 2^16) - 2^15

\* Line 82 for the sample x: int16[i] = inputData[i] * 32768.
Int16Of(x) == ToInt16(Trunc(x * Scale, Den))

\* Lines 79-83 of onaudioprocess for the frame f.
Convert(f) ==
  /\ inputData' = f
  /\ int16' = [i \in DOMAIN f |-> Int16Of(f[i])]
  /\ UNCHANGED <<refs, react, world, ghost, editor>>

\* onaudioprocess, lines 73-92.  loud is whether the frame's RMS is above 0.01.
\* The frame is numbered by its place in the capture order.
OnAudioProcess(k, loud) ==
  /\ capture[k]
  /\ captured[k] < MaxFrames
  /\ isUserSpeaking' = loud
  /\ captured' = [captured EXCEPT ![k] = @ + 1]
  /\ IF call[k] = "done"
     THEN sent' = Send(k, <<captured[k] + 1>>) /\ UNCHANGED queued
     ELSE /\ queued' = IF call[k] = "sessionPromise"
                       THEN [queued EXCEPT ![k] = Then(@, captured[k] + 1)]
                       ELSE queued
          /\ UNCHANGED sent
  /\ last' = Step("onaudioprocess", k, FALSE, "done")
  /\ UNCHANGED <<status, history, isGeminiSpeaking, refs, starts, call,
                 transport, track, capture, clock, sources, decoding, msgs,
                 closeCalls, trackStops, halted, expect, claimed,
                 said, log, dropped, asIf, pcm, editor>>

\* onerror, lines 146-150: the status set to ERROR is overwritten by
\* stopConversation.  The transport that reported the error closes.
OnError(k) ==
  /\ transport[k] = "open"
  /\ stopConversation({k})
  /\ last' = Step("onerror", k, FALSE, "done")
  /\ UNCHANGED <<history, inputAudioContextRef, outputAudioContextRef,
                 nextStartTimeRef, currentInputTransRef, currentOutputTransRef,
                 starts, call, capture, captured, queued, sent, clock, decoding,
                 msgs, expect, claimed,
                 said, log, asIf, pcm, editor>>

\* Lines 35-36 when session.close() throws: the call is not inside a try, so the
\* exception ends stopConversation before line 37.
CloseThrows ==
  /\ sessionRef # 0
  /\ closeCalls[sessionRef] < MaxThrows
  /\ closeCalls' = [closeCalls EXCEPT ![sessionRef] = @ + 1]

\* stopConversation called by a button or the unmount effect, close() throwing.
StopCloseThrows ==
  /\ CloseThrows
  /\ last' = Step("stop", 0, FALSE, "threw")
  /\ UNCHANGED <<refs, react, starts, call, transport, track, capture, captured,
                 queued, sent, clock, sources, decoding, msgs, trackStops, halted,
                 expect, claimed, said, log, dropped, asIf, pcm, editor>>

\* onerror, lines 146-150, close() throwing: the status set at line 148 stays.
OnErrorCloseThrows(k) ==
  /\ transport[k] = "open"
  /\ CloseThrows
  /\ status' = ERROR
  /\ transport' = [transport EXCEPT ![k] = CloseTransport(@)]
  /\ last' = Step("onerror", k, FALSE, "threw")
  /\ UNCHANGED <<history, isGeminiSpeaking, isUserSpeaking, refs, starts, call,
                 track, capture, captured, queued, sent, clock, sources, decoding,
                 msgs, trackStops, halted, expect, claimed, said, log, dropped,
                 asIf, pcm, editor>>

\* onclose, line 151: the transport was closed by the remote end or by close().
OnClose(k) ==
  /\ transport[k] \in {"open", "closing"}
  /\ transport' = [transport EXCEPT ![k] = "closed"]
  /\ status' = DISCONNECTED
  /\ dropped' = dropped \cup Partial
  /\ last' = Step("onclose", k, FALSE, "done")
  /\ UNCHANGED <<history, isGeminiSpeaking, isUserSpeaking, refs, starts, call,
                 track, capture, captured, queued, sent, clock, sources, decoding,
                 msgs, closeCalls, trackStops, halted, expect, claimed,
                 said, log, asIf, pcm, editor>>

\* ------------------------------------------------------- inbound messages
\* A LiveServerMessage, by the fields onmessage reads.  audio is 0 for a message
\* without audio and the duration of its chunk otherwise; decodes says whether
\* the audio data decodes.
Message(inT, outT, tc, au, ok, int) ==
  [inputTranscription |-> inT, outputTranscription |-> outT, turnComplete |-> tc,
   audio |-> au, decodes |-> ok, interrupted |-> int]

\* Messages of the audio stream: a chunk, an interruption, or both.
AudioMessages ==
  {Message(Absent, Absent, FALSE, au, TRUE, int) : au \in 1..MaxDur, int \in BOOLEAN}
  \cup {Message(Absent, Absent, FALSE, 1, FALSE, int) : int \in BOOLEAN}
  \cup {Message(Absent, Absent, FALSE, 0, TRUE, TRUE)}

\* The transcription fields the n-th message can carry: none, the empty text,
\* or a text no other message carries (the handler reads of a text only whether
\* it is empty).
Texts(n) == {Absent, << >>, <<n>>}

\* Messages of the transcript stream: fragments of either role, turn-complete.
TextMessages(n) ==
  {Message(inT, outT, tc, 0, TRUE, FALSE) :
     inT \in Texts(n), outT \in Texts(n), tc \in BOOLEAN}

\* Lines 98-102: the accumulators after the transcription of m is added.
AddOutput(acc, m) ==
  IF m.outputTranscription # Absent THEN acc \o m.outputTranscription ELSE acc

AddInput(acc, m) ==
  IF m.outputTranscription = Absent /\ m.inputTranscription # Absent
  THEN acc \o m.inputTranscription
  ELSE acc

\* Entries without the test of the user text.
EntriesUserUnguarded(u, g) ==
  <<[role |-> "user", text |-> u]>>
  \o (IF g # << >> THEN <<[role |-> "gemini", text |-> g]>> ELSE << >>)

\* Lines 108-112: the entries a turn-complete appends for the texts u and g.
Entries(u, g) ==
  (IF u # << >> THEN <<[role |-> "user", text |-> u]>> ELSE << >>)
  \o (IF g # << >> THEN <<[role |-> "gemini", text |-> g]>> ELSE << >>)

\* A turn-complete that puts the new entries first.
TurnCompletePrepends(h, u, g, m) ==
  IF m.turnComplete /\ (u # << >> \/ g # << >>) THEN Entries(u, g) \o h ELSE h

\* Lines 104-113: the history after the turn-complete of m, if it carries one.
TurnComplete(h, u, g, m) ==
  IF m.turnComplete /\ (u # << >> \/ g # << >>) THEN h \o Entries(u, g) ELSE h

\* The turn-complete m carries, for `last`.
Turn(m) ==
  IF ~m.turnComplete THEN "none"
  ELSE IF m.inputTranscription \in {Absent, << >>} /\ said.user = << >>
          /\ m.outputTranscription \in {Absent, << >>} /\ said.gemini = << >>
       THEN "empty" ELSE "full"

\* The handlers suspended on decoding when an interruption is handled.
Stale(q) == [j \in DOMAIN q |-> [q[j] EXCEPT !.stale = TRUE]]

\* Lines 140-143 applied to the sources srcs with the active set act, while the
\* handlers q are suspended.
Interrupt(srcs, act, q) ==
  /\ sources' = StopAll(srcs, act)
  /\ activeSourcesRef' = {}
  /\ nextStartTimeRef' = 0
  /\ isGeminiSpeaking' = FALSE
  /\ decoding' = Stale(q)
  /\ expect' = {}
  /\ claimed' = {}
  /\ asIf' = 0

\* Every fragment m carries, added to what its role has said in this turn.
Heard(m) ==
  [user   |-> IF m.inputTranscription # Absent
              THEN said.user \o m.inputTranscription ELSE said.user,
   gemini |-> IF m.outputTranscription # Absent
              THEN said.gemini \o m.outputTranscription ELSE said.gemini]

\* nextStartTime set to the clock, without the maximum.
ArriveAtClock(next, now) == now

\* Line 122: nextStartTime when a chunk arrives with the output clock at now.
Arrive(next, now) == Max(next, now)

\* whether the data of the suspended handler h decodes: decodeAudioData resolves,
\* and rejects otherwise
decodeAudioData(h) == h.decodes

\* onmessage, lines 97-145, up to the await of decodeAudioData when the message
\* carries audio, and to its end otherwise.
OnMessage(k, m) ==
  /\ transport[k] = "open"
  /\ msgs' = msgs + 1
  /\ LET uText == AddInput(currentInputTransRef, m)
         gText == AddOutput(currentOutputTransRef, m)
     IN /\ history' = TurnComplete(history, uText, gText, m)
        /\ currentInputTransRef' = IF m.turnComplete THEN << >> ELSE uText
        /\ currentOutputTransRef' = IF m.turnComplete THEN << >> ELSE gText
        /\ log' = IF m.turnComplete
                  THEN log \o Entries(Heard(m).user, Heard(m).gemini) ELSE log
        /\ said' = IF m.turnComplete
                   THEN [user |-> << >>, gemini |-> << >>] ELSE Heard(m)
  /\ IF m.audio # 0
     THEN /\ isGeminiSpeaking' = TRUE
          /\ nextStartTimeRef' = Arrive(nextStartTimeRef, clock[outputAudioContextRef])
          /\ expect' = IF clock[outputAudioContextRef] > nextStartTimeRef
                       THEN {} ELSE expect
          /\ decoding' = Append(decoding,
                                [ctx |-> outputAudioContextRef, audio |-> m.audio,
                                 decodes |-> m.decodes,
                                 interrupted |-> m.interrupted, stale |-> FALSE])
          /\ asIf' = IF m.decodes THEN Arrive(asIf, clock[outputAudioContextRef])
                     ELSE asIf
          /\ last' = [Step("onmessage", k, m.interrupted, "await")
                       EXCEPT !.turn = Turn(m)]
          /\ UNCHANGED <<sources, activeSourcesRef, claimed>>
     ELSE /\ IF m.interrupted
             THEN Interrupt(sources, activeSourcesRef, decoding)
             ELSE UNCHANGED <<sources, activeSourcesRef, nextStartTimeRef,
                              isGeminiSpeaking, decoding, expect, claimed, asIf>>
          /\ last' = [Step("onmessage", k, m.interrupted, "done")
                       EXCEPT !.turn = Turn(m)]
  /\ UNCHANGED <<status, isUserSpeaking, inputAudioContextRef,
                 outputAudioContextRef, sessionRef, streamRef, starts, call,
                 transport, track, capture, captured, queued, sent, clock,
                 closeCalls, trackStops, halted, dropped, pcm, editor>>

Without(q, i) == [j \in 1..(Len(q) - 1) |-> IF j < i THEN q[j] ELSE q[j + 1]]

\* nextStartTime set to the duration, not moved by it.
AdvanceAssigns(next, d) == d

\* Line 135: nextStartTime after the chunk of duration d is started at next.
Advance(next, d) == next + d

\* The rest of onmessage, lines 124-144, for the i-th suspended handler.  Data
\* that does not decode ends the handler with an exception at line 124.
Decoded(i) ==
  /\ i \in DOMAIN decoding
  /\ LET h == decoding[i]
         rest == Without(decoding, i)
         started == sources \cup {Source(h)}
         active == activeSourcesRef \cup {Source(h).id}
     IN IF ~decodeAudioData(h)
        THEN /\ last' = Step("decoded", 0, h.interrupted, "threw")
             /\ decoding' = rest
             /\ UNCHANGED <<sources, activeSourcesRef, nextStartTimeRef,
                            isGeminiSpeaking, expect, claimed, asIf>>
        ELSE /\ last' = Step("decoded", 0, h.interrupted, "done")
             /\ IF h.interrupted
                THEN Interrupt(started, active, rest)
                ELSE /\ sources' = started
                     /\ activeSourcesRef' = active
                     /\ nextStartTimeRef' = Advance(nextStartTimeRef, h.audio)
                     /\ decoding' = rest
                     /\ expect' = {Source(h).start + h.audio}
                     /\ claimed' = {Source(h).start + h.audio}
                     /\ asIf' = Advance(asIf, h.audio)
                     /\ UNCHANGED isGeminiSpeaking
  /\ UNCHANGED <<status, history, isUserSpeaking, inputAudioContextRef,
                 outputAudioContextRef, sessionRef, streamRef,
                 currentInputTransRef, currentOutputTransRef, starts, call,
                 transport, track, capture, captured, queued, sent, clock, msgs,
                 closeCalls, trackStops, halted, said, log, dropped, pcm, editor>>

\* The 'ended' listener of source s, lines 129-132: the source played to its end
\* or was stopped.
OnEnded(s) ==
  /\ s \in sources
  /\ s.stops > 0 \/ Finished(s)
  /\ sources' = sources \ {s}
  /\ activeSourcesRef' = activeSourcesRef \ {s.id}
  /\ isGeminiSpeaking' = IF activeSourcesRef \ {s.id} = {} THEN FALSE
                         ELSE isGeminiSpeaking
  /\ last' = Step("ended", 0, FALSE, "done")
  /\ UNCHANGED <<status, history, isUserSpeaking, inputAudioContextRef,
                 outputAudioContextRef, nextStartTimeRef, sessionRef, streamRef,
                 currentInputTransRef, currentOutputTransRef, starts, call,
                 transport, track, capture, captured, queued, sent, clock,
                 decoding, msgs, closeCalls, trackStops, halted, expect, claimed,
                 said, log, dropped, asIf, pcm, editor>>

\* The clock of output context c advances.  A context is never closed, so its
\* clock runs on; only a clock something can still read is advanced.
Watched(c) ==
  \/ c = outputAudioContextRef
  \/ \E i \in DOMAIN decoding : decoding[i].ctx = c
  \/ \E s \in sources : s.ctx = c

Tick(c) ==
  /\ c <= starts
  /\ Watched(c)
  /\ clock[c] < MaxClock
  /\ clock' = [clock EXCEPT ![c] = @ + 1]
  /\ last' = Step("tick", 0, FALSE, "done")
  /\ UNCHANGED <<refs, react, starts, call, transport, track, capture, captured,
                 queued, sent, sources, decoding, msgs, closeCalls, trackStops,
                 halted, expect, claimed, said, log, dropped, asIf, pcm, editor>>

\* ------------------------------------------------------------ image editor
\* Lines 26-31 of src/components/ImageEditor.tsx, for the history h and the
\* pointer p of a render: 0 stands for null.
currentImage(h, p) == IF p >= 0 /\ p < Len(h) THEN h[p + 1] ELSE 0

canUndo == pointer > 0

canRedo == pointer < Len(editorHistory) - 1

\* The whole history with img pushed.
PushedWhole(h, p, img) == Append(h, img)

\* history.slice(0, pointer + 1) with img pushed: lines 88-89 and 139-140.
Pushed(h, p, img) == Append(SubSeq(h, 1, Min(Max(p + 1, 0), Len(h))), img)

\* The upload area is clicked (line 256) and a file is chosen: handleFileChange
\* starts a FileReader, lines 36-49.
ChooseFile ==
  /\ ~isCropping
  /\ currentImage(editorHistory, pointer) = 0
  /\ reading < MaxFlight
  /\ reading' = reading + 1
  /\ lastEdit' = Did("choose", editorHistory, pointer)
  /\ UNCHANGED <<app, editorHistory, pointer, prompt, isProcessing, isCropping,
                 cropBox, edits, made>>

\* reader.onload, lines 39-45.
OnLoad ==
  /\ reading > 0
  /\ made < MaxImages
  /\ reading' = reading - 1
  /\ made' = made + 1
  /\ editorHistory' = <<made + 1>>
  /\ pointer' = 0
  /\ isCropping' = FALSE
  /\ cropBox' = FALSE
  /\ lastEdit' = Did("upload", editorHistory, pointer)
  /\ UNCHANGED <<app, prompt, isProcessing, edits>>

\* The prompt is typed, or set by a suggestion button: lines 302 and 368.
SetPrompt(blank) ==
  /\ ~isCropping
  /\ prompt' = ~blank
  /\ lastEdit' = Did("prompt", editorHistory, pointer)
  /\ UNCHANGED <<app, editorHistory, pointer, isProcessing, isCropping, cropBox,
                 reading, edits, made>>

\* The crop tool button, lines 203-207.
ToggleCrop ==
  /\ currentImage(editorHistory, pointer) # 0
  /\ ~isProcessing
  /\ isCropping' = ~isCropping
  /\ cropBox' = FALSE
  /\ lastEdit' = Did("toggle", editorHistory, pointer)
  /\ UNCHANGED <<app, editorHistory, pointer, prompt, isProcessing, reading, edits,
                 made>>

\* handleMouseDown, lines 150-159: a crop box is drawn.
HandleMouseDown ==
  /\ isCropping
  /\ cropBox' = TRUE
  /\ lastEdit' = Did("drag", editorHistory, pointer)
  /\ UNCHANGED <<app, editorHistory, pointer, prompt, isProcessing, isCropping,
                 reading, edits, made>>

\* executeCrop, lines 115-148, called by the button of line 310.
ExecuteCrop ==
  /\ isCropping /\ cropBox /\ ~isProcessing
  /\ currentImage(editorHistory, pointer) # 0
  /\ made < MaxImages
  /\ made' = made + 1
  /\ editorHistory' = Pushed(editorHistory, pointer, made + 1)
  /\ pointer' = Len(editorHistory') - 1
  /\ isCropping' = FALSE
  /\ cropBox' = FALSE
  /\ lastEdit' = Did("crop", editorHistory, pointer)
  /\ UNCHANGED <<app, prompt, isProcessing, reading, edits>>

\* handleEdit, lines 51-57, up to the await of hasSelectedApiKey: called by the
\* button of line 310 or the Enter key of line 303.  The call keeps the history
\* and the pointer of the render it was made in.
HandleEdit ==
  /\ ~isCropping
  /\ currentImage(editorHistory, pointer) # 0 /\ prompt /\ ~isProcessing
  /\ Len(edits) < MaxFlight
  /\ edits' = Append(edits, [history |-> editorHistory, pointer |-> pointer,
                             at |-> "hasSelectedApiKey"])
  /\ lastEdit' = Did("handleEdit", editorHistory, pointer)
  /\ UNCHANGED <<app, editorHistory, pointer, prompt, isProcessing, isCropping,
                 cropBox, reading, made>>

\* Lines 58-71: the key is there or was selected, up to the await of
\* generateContent.
KeySelected(i) ==
  /\ i \in DOMAIN edits
  /\ edits[i].at = "hasSelectedApiKey"
  /\ isProcessing' = TRUE
  /\ edits' = [edits EXCEPT ![i].at = "generateContent"]
  /\ lastEdit' = Did("keySelected", edits[i].history, edits[i].pointer)
  /\ UNCHANGED <<app, editorHistory, pointer, prompt, isCropping, cropBox, reading,
                 made>>

\* Lines 82-93 and 110-111: the response holds an image.
EditDone(i) ==
  /\ i \in DOMAIN edits
  /\ edits[i].at = "generateContent"
  /\ made < MaxImages
  /\ made' = made + 1
  /\ editorHistory' = Pushed(edits[i].history, edits[i].pointer, made + 1)
  /\ pointer' = Len(editorHistory') - 1
  /\ prompt' = FALSE
  /\ isProcessing' = FALSE
  /\ edits' = Without(edits, i)
  /\ lastEdit' = Did("edit", edits[i].history, edits[i].pointer)
  /\ UNCHANGED <<app, isCropping, cropBox, reading>>

\* Lines 98-111: an await throws, or the response holds no image.
EditFailed(i) ==
  /\ i \in DOMAIN edits
  /\ isProcessing' = FALSE
  /\ edits' = Without(edits, i)
  /\ lastEdit' = Did("editFailed", edits[i].history, edits[i].pointer)
  /\ UNCHANGED <<app, editorHistory, pointer, prompt, isCropping, cropBox, reading,
                 made>>

\* undo, line 184, by the button of lines 223-225.
undo ==
  /\ canUndo /\ ~isProcessing
  /\ pointer' = pointer - 1
  /\ lastEdit' = Did("undo", editorHistory, pointer)
  /\ UNCHANGED <<app, editorHistory, prompt, isProcessing, isCropping, cropBox,
                 reading, edits, made>>

\* redo, line 185, by the button of lines 233-235.
redo ==
  /\ canRedo /\ ~isProcessing
  /\ pointer' = pointer + 1
  /\ lastEdit' = Did("redo", editorHistory, pointer)
  /\ UNCHANGED <<app, editorHistory, prompt, isProcessing, isCropping, cropBox,
                 reading, edits, made>>

\* ------------------------------------------------------------ specifications
\* The session life cycle, with at most n calls of startConversation.
Session(n) ==
  \/ starts < n /\ StartConversation
  \/ Stop
  \/ \E k \in Calls : MicGranted(k)
  \/ \E k \in Calls : MicDenied(k)
  \/ \E k \in Calls : OnOpen(k)
  \/ \E k \in Calls : ConnectFailed(k)
  \/ \E k \in Calls : SessionResolved(k)
  \/ \E k \in Calls : OnError(k)
  \/ \E k \in Calls : OnClose(k)

Capture == \E k \in Calls, loud \in BOOLEAN : OnAudioProcess(k, loud)

Playback ==
  \/ \E i \in DOMAIN decoding : Decoded(i)
  \/ \E s \in sources : OnEnded(s)
  \/ \E c \in Calls : Tick(c)

\* The whole program.  The specifications after it follow one stream each.
Next ==
  \/ Session(MaxStarts)
  \/ Capture
  \/ Playback
  \/ \E k \in Calls, m \in AudioMessages \cup TextMessages(msgs + 1) :
       msgs < AudioMsgs /\ OnMessage(k, m)

Spec == Init /\ [][Next]_vars

\* The audio stream of a session that can be stopped, fail and close.
NextAudio ==
  \/ Session(AudioStarts)
  \/ Playback
  \/ \E k \in Calls, m \in AudioMessages : msgs < AudioMsgs /\ OnMessage(k, m)

SpecAudio == Init /\ [][NextAudio]_vars

\* The audio stream of a session whose close() can throw.
NextTeardown ==
  \/ NextAudio
  \/ StopCloseThrows
  \/ \E k \in Calls : OnErrorCloseThrows(k)

SpecTeardown == Init /\ [][NextTeardown]_vars

\* The audio stream of one session that stays connected.
NextSchedule ==
  \/ starts = 0 /\ StartConversation
  \/ \E k \in Calls : MicGranted(k)
  \/ \E k \in Calls : OnOpen(k)
  \/ \E k \in Calls : SessionResolved(k)
  \/ Playback
  \/ \E k \in Calls, m \in AudioMessages : msgs < AudioMsgs /\ OnMessage(k, m)

SpecSchedule == Init /\ [][NextSchedule]_vars

\* The transcript stream of the sessions.
NextText ==
  \/ Session(MaxStarts)
  \/ \E k \in Calls, m \in TextMessages(msgs + 1) : msgs < TextMsgs /\ OnMessage(k, m)

SpecText == Init /\ [][NextText]_vars

\* The transcript stream of one session that stays connected.
NextTurns ==
  \/ starts = 0 /\ StartConversation
  \/ \E k \in Calls : MicGranted(k)
  \/ \E k \in Calls : OnOpen(k)
  \/ \E k \in Calls : SessionResolved(k)
  \/ \E k \in Calls, m \in TextMessages(msgs + 1) : msgs < TextMsgs /\ OnMessage(k, m)

SpecTurns == Init /\ [][NextTurns]_vars

\* The capture loop of a session that can be stopped, fail and close.
NextOutbound ==
  \/ Session(AudioStarts)
  \/ Capture

SpecOutbound == Init /\ [][NextOutbound]_vars

\* The conversion of captured frames.
NextPcm == \E f \in Frames : Convert(f)

SpecPcm == Init /\ [][NextPcm]_vars

\* The image editor.
NextEditor ==
  \/ ChooseFile
  \/ OnLoad
  \/ \E blank \in BOOLEAN : SetPrompt(blank)
  \/ ToggleCrop
  \/ HandleMouseDown
  \/ ExecuteCrop
  \/ HandleEdit
  \/ \E i \in DOMAIN edits : KeySelected(i)
  \/ \E i \in DOMAIN edits : EditDone(i)
  \/ \E i \in DOMAIN edits : EditFailed(i)
  \/ undo
  \/ redo

SpecEditor == Init /\ [][NextEditor]_vars

\* The capture loops of the sessions.
NextCapture ==
  \/ Session(MaxStarts)
  \/ Capture

SpecCapture == Init /\ [][NextCapture]_vars

\* ------------------------------------------------------------------ claims
Overlap(s, t) == s.begin < t.begin + t.dur /\ t.begin < s.begin + s.dur

\* C1: no two sources that are in the active set together, on the same output
\* clock, have overlapping playback intervals [begin, begin + dur).
NoOverlap ==
  \A s, t \in sources :
    (s.id # t.id /\ s.id \in activeSourcesRef /\ t.id \in activeSourcesRef
     /\ s.ctx = t.ctx) => ~Overlap(s, t)

\* C2, as claimed: with no interruption since the chunk started before it, every
\* chunk is given the start time at which that chunk ends, so the k-th start is
\* the first start plus d1 + ... + d(k-1).
GaplessAlways == \A s \in sources : \A t \in s.claimed : s.start = t

\* C2, amended: a chunk is given the start time at which the chunk started
\* before it ends, whenever since then no interruption was handled and no chunk
\* arrived with the output clock past nextStartTime.
GaplessWhileAhead == \A s \in sources : \A t \in s.expect : s.start = t

\* C2 witness: a chunk of a run was started behind a chunk of duration MaxDur.
GaplessReached ==
  \E s \in sources : s.expect # {} /\ s.start >= MaxDur /\ s.start = s.begin

\* C3: directly after the handler of a message carrying `interrupted` has ended,
\* every source left has been stopped, the active set is empty, nextStartTime is
\* 0 and the model is not speaking.
InterruptionSilences ==
  (last.interrupted /\ last.how \in {"done", "threw"}) =>
    /\ \A s \in sources : s.stops > 0
    /\ activeSourcesRef = {}
    /\ nextStartTimeRef = 0
    /\ ~isGeminiSpeaking

\* C4: no source is started for a chunk that was being decoded when an
\* interruption was handled.
NoStartAfterInterruption == \A s \in sources : ~s.stale

\* C5: from the return of stopConversation to the next start, no source is
\* started and no packet is sent.
HardBarrier ==
  [][(halted /\ halted') => (sent' = sent /\ Ids(sources') \subseteq Ids(sources))]_vars

\* C6: the model is speaking exactly when the active set is not empty.
SpeakingIffActive == isGeminiSpeaking <=> (activeSourcesRef # {})

\* C7: the history is the transcript the delivered fragments call for: at each
\* turn-complete one entry per role heard since the turn-complete before, user
\* first, with all the fragments of the role in delivery order.
TranscriptOfFragments == history = log

\* C8: a turn-complete when no role was heard since the turn-complete before
\* appends nothing, and no entry of the history has an empty text.
EmptyTurnNothing ==
  [][/\ last'.turn = "empty" => history' = history
     /\ \A i \in DOMAIN history' : history'[i].text # << >>]_vars

\* C8 witness: an empty turn was completed after a role had said the empty text
\* and with entries in the history.
EmptyTurnReached ==
  /\ last.turn = "empty"
  /\ history # << >>
  /\ msgs = TextMsgs

\* C9: the history only grows at its end: each step leaves the history it found
\* as a prefix of the history it makes.
AppendOnly ==
  [][/\ Len(history) <= Len(history')
     /\ SubSeq(history', 1, Len(history)) = history]_vars

\* C9 witness: a second session appended to the history of a stopped first one.
AppendedAfterRestart ==
  /\ starts = 2
  /\ Len(history) >= 2
  /\ history[1].text = <<1>>
  /\ last.op = "onmessage" /\ last.k = 2 /\ last.turn = "full"

\* C10: stopConversation changes nothing when the status is DISCONNECTED, in
\* particular when it has just been called, and nothing is closed or stopped
\* twice.
StopIdempotent ==
  [][/\ (last'.op = "stop" /\ status = DISCONNECTED) =>
          UNCHANGED <<refs, react, transport, track, closeCalls, trackStops,
                      sources>>
     /\ \A k \in Calls : closeCalls'[k] <= 1 /\ trackStops'[k] <= 1
     /\ \A s \in sources' : s.stops <= 1]_vars

\* C11: the status never changes from DISCONNECTED to CONNECTED in one step, and
\* CONNECTED is entered only from CONNECTING.
ConnectedOnlyFromConnecting ==
  [][/\ ~(status = DISCONNECTED /\ status' = CONNECTED)
     /\ (status' = CONNECTED /\ status # CONNECTED) => status = CONNECTING]_vars

\* C12: when a failure of the transport to open or an inbound error event has
\* been handled, the status is ERROR, and the status leaves ERROR only by a call
\* of stopConversation or startConversation.
ErrorObservable ==
  [][/\ last'.op \in {"onerror", "connectFailed"} => status' = ERROR
     /\ (status = ERROR /\ status' # ERROR) => last'.op \in {"stop", "start"}]_vars

\* No microphone stream has a live track.
Released == \A k \in Calls : track[k] # "live"

\* No source is playing or going to play, and the active set is empty.
Silent ==
  /\ activeSourcesRef = {}
  /\ \A s \in sources : s.stops > 0 \/ Finished(s)

\* C13: whenever the status becomes ERROR, the microphone stream has been
\* released, every active source has been stopped and the active set is empty.
TeardownOnError ==
  [][(status # ERROR /\ status' = ERROR) => (Released' /\ Silent')]_vars

\* C14: when the close event of a transport has been handled, the status is
\* DISCONNECTED, the microphone stream is released, every active source is
\* stopped and the active set is empty; and nothing is sent on a closed
\* transport.
TeardownOnClose ==
  [][/\ last'.op = "onclose" => (status' = DISCONNECTED /\ Released' /\ Silent')
     /\ \A k \in Calls : transport[k] = "closed" => sent'[k] = sent[k]]_vars

\* C15: after a stop, an error or a close both accumulators are empty, and no
\* entry of the history holds text that was in an accumulator at a teardown.
PartialTurnsDiscarded ==
  /\ last.op \in {"stop", "onerror", "onclose"} =>
       (currentInputTransRef = << >> /\ currentOutputTransRef = << >>)
  /\ \A i \in DOMAIN history : Chars(history[i].text) \cap dropped = {}

\* C16: a call of stopConversation in which close() throws still stops the tracks
\* of the stream, stops every active source, clears the active set and sets the
\* status to DISCONNECTED.
TeardownDespiteClose ==
  [][(last'.op \in {"stop", "onerror"} /\ last'.how = "threw") =>
       /\ streamRef # 0 => track'[streamRef] = "stopped"
       /\ \A s \in sources' : s.id \in activeSourcesRef => s.stops > 0
       /\ activeSourcesRef' = {}
       /\ status' = DISCONNECTED]_vars

\* The calls whose microphone stream is live, and those whose capture loop runs
\* on an open transport.
Holding == {k \in Calls : track[k] = "live"}

Sending == {k \in Calls : capture[k] /\ transport[k] = "open"}

\* C17: at most one session holds a live microphone stream and at most one
\* capture loop is sending packets.
ExclusiveDevice == Cardinality(Holding) <= 1 /\ Cardinality(Sending) <= 1

Increasing(q) == \A i, j \in DOMAIN q : i < j => q[i] < q[j]

\* C18: the frames given to the transport of a session are in capture order, the
\* frames still waiting on the session promise are in capture order behind them,
\* and a frame can be captured whatever is still waiting to be sent.
OutboundOrder ==
  \A k \in Calls :
    /\ Increasing(sent[k] \o queued[k])
    /\ (capture[k] /\ captured[k] < MaxFrames) => ENABLED OnAudioProcess(k, TRUE)

\* C18 witness: frames captured while the session promise was pending were sent
\* when it resolved.
OutboundFlushed ==
  \E k \in Calls : last.op = "sessionResolved" /\ last.k = k /\ Len(sent[k]) = MaxFrames

\* The sample x clamped to [-1.0, 1.0], and the 16-bit value the clamped sample
\* gives when it is scaled and truncated without wrapping.
Clamp(x) == Max(-Den, Min(x, Den))

Clamped16(x) == Min(Trunc(Clamp(x) * Scale, Den), 2^15 - 1)

\* C19: every stored value is that of the sample clamped to [-1.0, 1.0], scaled
\* by 32768 and truncated, so a sample out of range gives what the nearest bound
\* gives, -1.0 gives -32768, 0.5 gives 16384, and no value wraps around.
PcmClamps ==
  \A i \in DOMAIN inputData :
    /\ int16[i] = Clamped16(inputData[i])
    /\ int16[i] = Int16Of(Clamp(inputData[i]))
    /\ inputData[i] = -Den => int16[i] = -Scale
    /\ 2 * inputData[i] = Den => 2 * int16[i] = Scale

\* The calls of startConversation that ended because getUserMedia rejected.
Unavailable == {k \in Calls : call[k] = "caught" /\ track[k] = "none"}

\* C20: when getUserMedia has rejected the status is ERROR, and for that call
\* no transport session is ever opened, no capture loop is installed and no frame
\* is captured, queued or sent.
MicUnavailable ==
  /\ last.op = "micDenied" => (status = ERROR /\ last.k \in Unavailable)
  /\ \A k \in Unavailable :
       /\ transport[k] = "none"
       /\ ~capture[k]
       /\ captured[k] = 0 /\ queued[k] = << >> /\ sent[k] = << >>

\* C20 witness: a start ended for want of a microphone, and the session was
\* then stopped.
MicUnavailableThenStopped ==
  /\ Unavailable # {}
  /\ last.op = "stop"
  /\ status = DISCONNECTED

\* C21: a chunk that does not decode gets no source and leaves the status as it
\* is, and every chunk that decodes is started at the time it would be started
\* at had no chunk arrived that did not decode.
DecodeFailureLocal ==
  [][/\ (last'.op = "decoded" /\ last'.how = "threw") =>
          (sources' = sources /\ activeSourcesRef' = activeSourcesRef
           /\ status' = status)
     /\ (last'.op = "decoded" /\ last'.how = "done") => nextStartTimeRef = asIf]_vars

\* C22: a start in DISCONNECTED makes the status CONNECTING, and the status is
\* not CONNECTED while the start made last is the one that ended in ERROR, that
\* is, while no start was made since ERROR was entered.
StartReachability ==
  [][/\ (last'.op = "start" /\ status = DISCONNECTED) => status' = CONNECTING
     /\ (starts' > 0 /\ call'[starts'] = "caught") => status' # CONNECTED]_vars

\* C23: when stopConversation has run, or an error or a close has been handled,
\* nextStartTime is 0, so that nothing of the timeline of the session is left
\* for the session started next.
TeardownResetsTimeline ==
  (last.op \in {"stop", "onerror", "onclose"} /\ last.how = "done") =>
    nextStartTimeRef = 0

\* C24: nextStartTime never decreases from a state to the next, except in a
\* step that handles an interruption, which sets it to 0.
NextStartTimeMonotone ==
  [][\/ nextStartTimeRef' >= nextStartTimeRef
     \/ /\ last'.op \in {"onmessage", "decoded"}
        /\ last'.interrupted /\ last'.how = "done"
        /\ nextStartTimeRef' = 0]_vars

\* C24 witness: an interruption has taken nextStartTime back to 0 after a chunk
\* was started at a time past 0.
ResetFromAhead ==
  /\ last.interrupted /\ last.how = "done"
  /\ nextStartTimeRef = 0
  /\ \E s \in sources : s.stops > 0 /\ s.start > 0

\* What the sequence q holds behind its first n elements.
Behind(q, n) == SubSeq(q, n + 1, Len(q))

\* C25: each accumulator holds every fragment its role was sent since the
\* turn-complete before, and the entries a turn-complete appends hold every
\* fragment of the turn, those of its own message too.
NoFragmentLost ==
  [][/\ currentInputTransRef' = said'.user
     /\ currentOutputTransRef' = said'.gemini
     /\ Behind(history', Len(history)) = Behind(log', Len(log))]_vars

\* C26: the pointer is -1 exactly when the history is empty and otherwise is
\* an index of the history; undo and redo move the pointer by one and leave
\* the history as it is; a completed edit or crop started at pointer p of a
\* history leaves the first p + 1 images of that history followed by the new
\* image, with the pointer on the new image.
EditorHistoryInvariant ==
  [][/\ (pointer' = -1) <=> (editorHistory' = << >>)
     /\ editorHistory' # << >> => (0 <= pointer' /\ pointer' < Len(editorHistory'))
     /\ lastEdit'.op = "undo" =>
          (pointer' = pointer - 1 /\ editorHistory' = editorHistory)
     /\ lastEdit'.op = "redo" =>
          (pointer' = pointer + 1 /\ editorHistory' = editorHistory)
     /\ lastEdit'.op \in {"edit", "crop"} =>
          /\ editorHistory' = SubSeq(lastEdit'.history, 1, lastEdit'.pointer + 1)
                                \o <<made'>>
          /\ pointer' = lastEdit'.pointer + 1
          /\ \A j \in 1..(lastEdit'.pointer + 1) : lastEdit'.history[j] < made']_vars

\* C26 witness: an edit has completed after an undo was done while it was in
\* flight.
EditAfterUndoInFlight ==
  /\ lastEdit.op = "edit"
  /\ lastEdit.now < lastEdit.pointer

====
